---- MODULE Spec2Model ----
(***************************************************************************)
(* Model of pbc-packing.py: the PBCPacking class that packs large          *)
(* molecules one at a time with packmol and then packs the solvent.        *)
(*                                                                         *)
(* Lengths are integers in units of 1/1000 Angstrom (mA), so that the 50   *)
(* histogram bin midpoints and half of the molecule extent are exact.      *)
(* Two specifications share the variables:                                 *)
(*   SpecCfg  the constructor: _unify_input_info, then _init_offsets;      *)
(*   Spec     run_packing on a constructed object;                         *)
(*   SpecGeom one round with its coordinates: the request, packmol's       *)
(*            output, and move_and_add_box on it.                          *)
(* packmol, numpy and MDAnalysis are modelled at their interface: packmol  *)
(* may or may not write its declared output, with any exit code; a file    *)
(* holds the number of large molecules in it, not their coordinates, and   *)
(* the histogram of random_long_mol_subbox is taken over every occupancy   *)
(* of the bounds below.  Arithmetic is exact; os.rename replaces its       *)
(* target, as on POSIX.                                                    *)
(***************************************************************************)
EXTENDS Integers, Sequences, FiniteSets, TLC

VARIABLES
    loaded_info,           \* the json as json.load returned it (line 52), kept for reference
    input_info,            \* self.input_info: the keys large_molecules, box, pbc
    box_side,              \* self.box_side
    solvent_box_offsets,   \* self.solvent_box_offsets (6 components)
    long_mol_box_offsets,  \* self.long_mol_box_offsets (6 components)
    long_mol_max_side,     \* self._long_mol_max_side
    large_mol_list,        \* self._large_mol_list, the molecule queue
    n_large,               \* self.n_large
    remove_tmp,            \* the remove_tmp argument of run_packing
    pc,                    \* position in __init__ / run_packing
    round,                 \* the round _pack_and_fix is serving
    i,                     \* iterations of the one-more-large loop started
    fs,                    \* the files of out_dir: name -> content or NoFile
    inp_file,              \* self._inp_file: the handle on box.inp
    rc,                    \* exit code of the last packmol subprocess
    calls,                 \* packmol invocations so far, in order
    transforms,            \* move_and_add_box calls so far, in order
    err,                   \* the exception that ended __init__ / run_packing
    geom                   \* one round's coordinates: the window requested, packmol's
                           \* atoms, and the universe of move_and_add_box

vars == <<loaded_info, input_info, box_side, solvent_box_offsets, long_mol_box_offsets,
          long_mol_max_side, large_mol_list, n_large, remove_tmp, pc, round,
          i, fs, inp_file, rc, calls, transforms, err, geom>>

cfgVars == <<loaded_info, input_info, box_side, solvent_box_offsets, long_mol_box_offsets, err>>
runVars == <<long_mol_max_side, large_mol_list, n_large, remove_tmp, round, i,
             fs, inp_file, rc, calls, transforms, geom>>

----------------------------------------------------------------------------
(* Bounds of the model.                                                    *)

MaxBoxLen == 4     \* longest "box" list tried
MaxPbcLen == 4     \* longest "pbc" list tried
MaxLarge  == 3     \* most large molecules drawn into the queue
MaxAtoms  == 2     \* most atoms read from ./initial.pdb for the histogram
MaxSolvent == 1    \* most solvent species in input_info['solvent']
MaxPlaced == 2     \* most atoms packmol places in the round followed with coordinates
Fine      == 4     \* steps of an in-memory coordinate per 1/1000 A, the step of a pdb file

Sides    == {6000, 8000}          \* box side values tried (6 A, 8 A)
PbcElems == {0, 1, 2}             \* pbc list elements tried; 2 is invalid
MaxSides == {1900, 2400}          \* molecule extents tried (fits / does not fit a 2 A window)
AtomXs   == {1000, 3010, 4000}   \* atom coordinates tried on a wall axis (outside, inside, right edge)

SeqsUpTo(S, n) == UNION {[1..k -> S] : k \in 0..n}

\* A json value: t says whether the key is absent, holds a list (v), or
\* holds something that is not a list.
NoKey     == [t |-> "absent", v |-> <<>>]
NotList   == [t |-> "other", v |-> <<>>]
ListOf(v) == [t |-> "list", v |-> v]
NoErr   == [type |-> "none", what |-> "none", log |-> "none"]
NoVal   == <<>>         \* attribute not assigned yet

Exc(type, what) == [type |-> type, what |-> what, log |-> "none"]

----------------------------------------------------------------------------
(* _unify_input_info, lines 126-143.                                       *)

\* box *= 3: list repetition in place.
\* (a faulty variant, box *= 2, used to test the properties)
BoxTimes3_Twice(box) == box \o box
BoxTimes3(box) == box \o box \o box

\* all(i in [0, 1] for i in pbc)
AllFlags(pbc) == \A k \in DOMAIN pbc : pbc[k] \in {0, 1}

\* The outcome of _unify_input_info on info: the exception raised, or the
\* dictionary as the method leaves it.
UnifyInputInfo(info) ==
    IF ~info.large_molecules
    THEN [err |-> Exc("IOError", "no_large_molecules"), info |-> info]
    ELSE IF info.box = NoKey \/ info.box = ListOf(<<>>)
    THEN [err |-> Exc("IOError", "no_box"), info |-> info]
    ELSE LET box  == IF Len(info.box.v) = 1 THEN BoxTimes3(info.box.v) ELSE info.box.v
             info1 == [info EXCEPT !.box = ListOf(box)]
         IN  IF Len(box) # 3
             THEN [err |-> Exc("ValueError", "box_len"), info |-> info1]
             ELSE LET pbc   == IF info.pbc = NoKey THEN ListOf(<<1, 1, 1>>) ELSE info.pbc
                      info2 == [info1 EXCEPT !.pbc = pbc]
                  IN  IF pbc.t # "list" \/ ~AllFlags(pbc.v)
                      THEN [err |-> Exc("IOError", "invalid_pbc"), info |-> info2]
                      ELSE [err |-> NoErr, info |-> info2]

----------------------------------------------------------------------------
(* _init_offsets, lines 111-124, on zeroed offsets (lines 68-69).          *)

\* numpy broadcasting of a 1-d array of length Len(a) against a slice of
\* length 3: equal lengths pair up, length 1 is stretched, others raise.
Broadcastable(a) == Len(a) \in {1, 3}
Bcast(a) == IF Len(a) = 1 THEN <<a[1], a[1], a[1]>> ELSE a

\* 2*np.float_(np.logical_not(pbcs))
NotPbcs(pbcs) == [k \in DOMAIN pbcs |-> IF pbcs[k] = 0 THEN 2000 ELSE 0]

\* solvent_box_offsets after lines 115-116 and 120-121 (1 A = 1000).
\* (a faulty variant that adds the wall margin on every axis)
SolventOffsets_SumBoth(pbcs) ==
    LET p == Bcast(pbcs)
    IN  [k \in 1..6 |-> IF k <= 3 THEN 0 + 1000 * p[k] + 2000
                                  ELSE 0 - 1000 * p[k - 3] - 2000]
SolventOffsets(pbcs) ==
    LET p == Bcast(pbcs)
        n == Bcast(NotPbcs(pbcs))
    IN  [k \in 1..6 |-> IF k <= 3 THEN 0 + 1000 * p[k] + n[k]
                                  ELSE 0 - 1000 * p[k - 3] - n[k - 3]]

\* long_mol_box_offsets after lines 123-124.
LongMolOffsets(pbcs) ==
    LET n == Bcast(NotPbcs(pbcs))
    IN  [k \in 1..6 |-> IF k <= 3 THEN n[k] ELSE 0 - n[k - 3]]

----------------------------------------------------------------------------
(* Rendering, lines 75-85: f'{val:g}' keeps 6 significant digits.          *)

RECURSIVE Pow10(_)
Pow10(n) == IF n = 0 THEN 1 ELSE 10 * Pow10(n - 1)

RECURSIVE NDigits(_)
NDigits(m) == IF m < 10 THEN 1 ELSE 1 + NDigits(m \div 10)

\* Round m to a multiple of q, ties to even.
RoundTo(m, q) ==
    LET lo == (m \div q) * q
        r  == m - lo
    IN  IF 2 * r < q THEN lo
        ELSE IF 2 * r > q THEN lo + q
        ELSE IF (m \div q) % 2 = 0 THEN lo ELSE lo + q

\* The number that f'{val:g}' prints for val = m/1000.
FormatG(m) ==
    LET a == IF m < 0 THEN 0 - m ELSE m
        d == NDigits(a)
        g == IF d <= 6 THEN a ELSE RoundTo(a, Pow10(d - 6))
    IN  IF m < 0 THEN 0 - g ELSE g

\* offsets.copy(); box[3:] += box_side
WindowOf(offsets, side) ==
    [k \in 1..6 |-> IF k <= 3 THEN offsets[k] ELSE offsets[k] + side[k - 3]]

Rendered(box) == [k \in 1..6 |-> FormatG(box[k])]

solvent_box_str  == Rendered(WindowOf(solvent_box_offsets, box_side))
long_mol_box_str == Rendered(WindowOf(long_mol_box_offsets, box_side))

----------------------------------------------------------------------------
(* The constructor, lines 50-73, as two steps.                             *)

RawInfos ==
    [large_molecules : BOOLEAN,
     solvent : 0..MaxSolvent,
     box : {NoKey} \cup {ListOf(v) : v \in SeqsUpTo(Sides, MaxBoxLen)},
     pbc : {NoKey, NotList} \cup {ListOf(v) : v \in SeqsUpTo(PbcElems, MaxPbcLen)}]

\* no universe loaded: nothing requested, placed, read or written
NoGeom == [window |-> <<>>, raw |-> <<>>, positions |-> <<>>, dimensions |-> <<>>,
           displ |-> <<>>, written |-> <<>>, cell |-> <<>>]

IdleRun ==
    /\ geom = NoGeom
    /\ long_mol_max_side = 0
    /\ large_mol_list = <<>>
    /\ n_large = 0
    /\ remove_tmp = FALSE
    /\ round = "none"
    /\ i = 0
    /\ fs = <<>>
    /\ inp_file = [open |-> FALSE, pos |-> 0, opens |-> 0]
    /\ rc = 0
    /\ calls = <<>>
    /\ transforms = <<>>

InitCfg ==
    /\ loaded_info \in RawInfos
    /\ input_info = loaded_info
    /\ box_side = NoVal
    /\ solvent_box_offsets = NoVal
    /\ long_mol_box_offsets = NoVal
    /\ pc = "loaded"
    /\ err = NoErr
    /\ IdleRun

\* line 53
CfgUnify ==
    /\ pc = "loaded"
    /\ LET r == UnifyInputInfo(input_info)
       IN  /\ input_info' = r.info
           /\ err' = r.err
           /\ pc' = IF r.err = NoErr THEN "unified" ELSE "config_error"
    /\ UNCHANGED <<loaded_info, box_side, solvent_box_offsets, long_mol_box_offsets>>
    /\ UNCHANGED runVars

\* lines 67-69 and 73
CfgInitOffsets ==
    /\ pc = "unified"
    /\ box_side' = input_info.box.v
    /\ IF Broadcastable(input_info.pbc.v)
       THEN /\ solvent_box_offsets' = SolventOffsets(input_info.pbc.v)
            /\ long_mol_box_offsets' = LongMolOffsets(input_info.pbc.v)
            /\ pc' = "constructed"
            /\ err' = NoErr
       ELSE /\ solvent_box_offsets' = [k \in 1..6 |-> 0]
            /\ long_mol_box_offsets' = [k \in 1..6 |-> 0]
            /\ pc' = "config_error"
            /\ err' = Exc("ValueError", "broadcast")
    /\ UNCHANGED <<loaded_info, input_info>>
    /\ UNCHANGED runVars

NextCfg == CfgUnify \/ CfgInitOffsets

SpecCfg == InitCfg /\ [][NextCfg]_vars

----------------------------------------------------------------------------
(* The files of out_dir and the packmol requests written to box.inp.       *)

Pdbs  == {"final.pdb", "initial.pdb", "boxed.pdb"}
Logs  == {"box_first.log", "box_one_more.log", "box.log"}
Files == Pdbs \cup Logs \cup {"box.inp"}

\* A file's content.  kind: "absent", "stale" (left by an earlier run),
\* "raw" (written by packmol), "fixed" (written by move_and_add_box), "log",
\* "inp".  n: the large molecules a structure holds; solv: it holds solvent;
\* moved: the transform displaced and wrapped it; cell: the unit cell is
\* set; text: the blocks of box.inp.
File(kind, n, solv, moved, cell, text) ==
    [kind |-> kind, n |-> n, solv |-> solv, moved |-> moved, cell |-> cell, text |-> text]
NoFile    == File("absent", 0, FALSE, FALSE, FALSE, <<>>)
StaleFile == File("stale", 0, FALSE, FALSE, FALSE, <<>>)
LogFile   == File("log", 0, FALSE, FALSE, FALSE, <<>>)
InpFile(text) == File("inp", 0, FALSE, FALSE, FALSE, text)

Exists(f) == fs[f].kind # "absent"

\* One block of a request: "output <file>", "structure <file> ... fixed",
\* or "structure ... inside box <box>" for large molecule mol (file =
\* "large") or a solvent species (file = "solvent").  The header and the
\* constrain_rotation lines carry no state the run reads back.
Block(blk, file, mol, box) == [blk |-> blk, file |-> file, mol |-> mol, box |-> box]
OutputBlk(file)      == Block("output", file, 0, <<>>)
FixedBlk(file)       == Block("fixed", file, 0, <<>>)
InsideBlk(file, mol, box) == Block("inside", file, mol, box)

\* f'{box_inp_basename}.log'
LogName(basename) ==
    CASE basename = "box_first"    -> "box_first.log"
      [] basename = "box_one_more" -> "box_one_more.log"
      [] basename = "box"          -> "box.log"

\* The box_out_basename and out_basename arguments of the three calls of
\* _pack_and_fix (lines 176, 184, 191-192) and their move argument.
BoxOutName(basename) == IF basename = "box" THEN "boxed.pdb" ELSE "final.pdb"
OutName(basename)    == IF basename = "box" THEN "boxed.pdb" ELSE "initial.pdb"
\* (a faulty variant that leaves move at its default in the solvent call)
MoveArg_Always(basename) == TRUE
\* (a faulty variant that passes move=False for the first placement too)
MoveArg_FirstStill(basename) == basename = "box_one_more"
MoveArg(basename)    == basename # "box"

\* file.write(text) at offset pos: overwrites from pos on and extends.
WriteAt(old, pos, text) ==
    LET n == IF Len(old) > pos + Len(text) THEN Len(old) ELSE pos + Len(text)
    IN  [k \in 1..n |-> IF k > pos /\ k <= pos + Len(text) THEN text[k - pos]
                        ELSE IF k <= Len(old) THEN old[k]
                        ELSE OutputBlk("hole")]

\* self._inp_file.write(text)
InpWrite(text) ==
    /\ fs' = [fs EXCEPT !["box.inp"] =
                 InpFile(WriteAt(fs["box.inp"].text, inp_file.pos, text))]
    /\ inp_file' = [inp_file EXCEPT !.pos = inp_file.pos + Len(text)]

----------------------------------------------------------------------------
(* random_long_mol_subbox, lines 87-109.                                   *)

NBins == 50

Min(a, b) == IF a < b THEN a ELSE b
Max(a, b) == IF a > b THEN a ELSE b

\* np.histogram(..., bins=50, range=(lo, hi)): the bin of x, or -1 outside
\* the range; the last bin holds the right edge.
BinOf(x, lo, hi) ==
    IF x < lo \/ x > hi THEN 0 - 1
    ELSE IF x = hi THEN NBins - 1
    ELSE ((x - lo) * NBins) \div (hi - lo)

Hist(xs, lo, hi) ==
    [b \in 0..(NBins - 1) |-> Cardinality({j \in DOMAIN xs : BinOf(xs[j], lo, hi) = b})]

\* (edges[1:] + edges[:-1]) / 2
EdgeMid(b, lo, hi) == lo + ((2 * b + 1) * (hi - lo)) \div (2 * NBins)

HistMax(h) == CHOOSE m \in {h[b] : b \in DOMAIN h} : \A b \in DOMAIN h : h[b] <= m

\* hist = hist.max() - hist
Inverted(h) == LET m == HistMax(h) IN [b \in DOMAIN h |-> m - h[b]]

RECURSIVE HistSum(_, _)
HistSum(h, b) == IF b < 0 THEN 0 ELSE h[b] + HistSum(h, b - 1)

\* hist / hist.sum() is NaN everywhere when the sum is 0, and
\* np.random.choice(edges_mid, p=hist) then raises ValueError; otherwise it
\* draws a bin of non-zero probability.  inv is the inverted histogram.
ChoiceRaises(inv) == HistSum(inv, NBins - 1) = 0
ChoiceBins(inv)   == {b \in DOMAIN inv : inv[b] > 0}

\* lines 100-103
\* (a faulty variant without the min() of lines 102-103)
HistLeft_NoMin(mid, lo, hi, max_side) == Max(lo, mid - max_side \div 2)
HistLeft(mid, lo, hi, max_side) ==
    Min(Max(lo, mid - max_side \div 2), hi - max_side)

\* The wall-axis coordinates of the atoms of ./initial.pdb.  The run does
\* not track coordinates, so every occupancy is admitted; the histogram
\* does not depend on the order of the atoms, so they are listed sorted.
Occupancies ==
    {xs \in UNION {[1..k -> AtomXs] : k \in 1..MaxAtoms} :
        \A j \in 1..(Len(xs) - 1) : xs[j] <= xs[j + 1]}

\* np.random.random() in [0, 1) at line 105, on a grid of fourths.
UniformLefts(lo, hi) == {lo + (k * (hi - lo)) \div 4 : k \in 0..3}

\* What one pass of the loop body can do on a wall axis: raise, or set the
\* bounds of the axis to (left, left + max_side).
AxisOut(ok, lo, hi) == [ok |-> ok, lo |-> lo, hi |-> hi]

WallAxisOutcomes(lo, hi, max_side, initial_exists) ==
    IF initial_exists
    THEN UNION {
           LET inv == Inverted(Hist(xs, lo, hi))
           IN  IF ChoiceRaises(inv) THEN {AxisOut(FALSE, lo, hi)}
               ELSE {LET left == HistLeft(EdgeMid(b, lo, hi), lo, hi, max_side)
                     IN  AxisOut(TRUE, left, left + max_side) : b \in ChoiceBins(inv)}
           : xs \in Occupancies}
    ELSE {AxisOut(TRUE, left, left + max_side) : left \in UniformLefts(lo, hi)}

\* (a faulty variant without the "if pbc: continue" of lines 92-93)
AxisOutcomes_AllWalls(axis, pbc, inside, max_side, initial_exists) ==
    WallAxisOutcomes(inside[axis], inside[axis + 3], max_side, initial_exists)
AxisOutcomes(axis, pbc, inside, max_side, initial_exists) ==
    \* enumerate(pbc) visits the axes pbc has; "if pbc: continue"
    IF axis > Len(pbc) \/ pbc[axis] # 0
    THEN {AxisOut(TRUE, inside[axis], inside[axis + 3])}
    ELSE WallAxisOutcomes(inside[axis], inside[axis + 3], max_side, initial_exists)

\* The results of the property: [ok, box] with box the rendered 6 numbers.
random_long_mol_subbox ==
    LET inside == WindowOf(long_mol_box_offsets, box_side)
        pbc    == input_info.pbc.v
        ex     == Exists("initial.pdb")
        outs(a) == AxisOutcomes(a, pbc, inside, long_mol_max_side, ex)
    IN  {[ok  |-> o1.ok /\ o2.ok /\ o3.ok,
          box |-> Rendered(<<o1.lo, o2.lo, o3.lo, o1.hi, o2.hi, o3.hi>>)]
         : o1 \in outs(1), o2 \in outs(2), o3 \in outs(3)}

----------------------------------------------------------------------------
(* The requests, lines 278-342.                                            *)

\* self._large_mol_list.pop(0): the entry returned, and the list left
Pop0Item(list) == Head(list)
\* (a faulty variant that reads the front entry without removing it)
Pop0Rest_Peek(list) == list
Pop0Rest(list) == Tail(list)

\* write_box_first_inp's text for molecule large_mol
FirstText(large_mol) ==
    <<OutputBlk("final.pdb"), InsideBlk("large", large_mol, long_mol_box_str)>>

\* write_box_one_more_large_inp's text for molecule large_conf and subbox
OneMoreText(large_conf, subbox) ==
    <<OutputBlk("final.pdb"), FixedBlk("initial.pdb"),
      InsideBlk("large", large_conf, subbox)>>

\* write_box_solvent_inp's text: one block per solvent species
SolventText ==
    <<OutputBlk("boxed.pdb"), FixedBlk("final.pdb")>>
    \o [k \in 1..input_info.solvent |-> InsideBlk("solvent", k, solvent_box_str)]

----------------------------------------------------------------------------
(* packmol, as the run sees it: it reads its standard input from the       *)
(* handle's offset to the end, and writes the file its "output" line       *)
(* declares, or fails to.  Its exit code is not tied to either outcome.    *)

StdinOf(text, pos) == SubSeq(text, pos + 1, Len(text))

\* what a request says apart from its windows: the blocks, their files
\* and molecules
ShapeOf(text) ==
    [k \in DOMAIN text |-> [blk |-> text[k].blk, file |-> text[k].file, mol |-> text[k].mol]]

\* A request packmol can act on: one output line, first, and every fixed
\* structure present in the directory.
Parses(input) ==
    /\ Len(input) >= 1
    /\ input[1].blk = "output"
    /\ \A k \in 2..Len(input) : input[k].blk # "output"
    /\ \A k \in 2..Len(input) : input[k].blk = "fixed" => Exists(input[k].file)

DeclaredOut(input) == IF Parses(input) THEN input[1].file ELSE "none"

\* The structure packmol writes for a request.
RawOutput(input) ==
    LET idx    == 2..Len(input)
        fixedN == IF \E k \in idx : input[k].blk = "fixed"
                  THEN fs[input[CHOOSE k \in idx : input[k].blk = "fixed"].file].n
                  ELSE 0
        placed == Cardinality({k \in idx : input[k].blk = "inside" /\ input[k].file = "large"})
        solv   == \E k \in idx : input[k].blk = "inside" /\ input[k].file = "solvent"
    IN  File("raw", fixedN + placed, solv, FALSE, FALSE, <<>>)

ExitCodes == {0, 1}

----------------------------------------------------------------------------
(* run_packing, lines 168-203, on a constructed object.                    *)

Triples == [1..3 -> {0, 1}]
\* the structures an earlier run may have left in out_dir
StaleSets == {{}, Pdbs}
RunBoxes == {<<6000, 6000, 6000>>}

Init ==
    /\ \E pbc \in Triples, box \in RunBoxes, ns \in 0..MaxSolvent :
          /\ loaded_info = [large_molecules |-> TRUE, solvent |-> ns,
                            box |-> ListOf(box), pbc |-> ListOf(pbc)]
          /\ input_info = UnifyInputInfo(loaded_info).info
          /\ box_side = box
          /\ solvent_box_offsets = SolventOffsets(pbc)
          /\ long_mol_box_offsets = LongMolOffsets(pbc)
    /\ n_large \in 1..MaxLarge
    /\ large_mol_list = [k \in 1..n_large |-> k]
    /\ long_mol_max_side \in MaxSides
    /\ remove_tmp \in BOOLEAN
    /\ \E stale \in StaleSets :
          fs = [f \in Files |-> IF f \in stale THEN StaleFile ELSE NoFile]
    /\ inp_file = [open |-> FALSE, pos |-> 0, opens |-> 0]
    /\ pc = "run_start"
    /\ round = "none"
    /\ i = 0
    /\ rc = 0
    /\ calls = <<>>
    /\ transforms = <<>>
    /\ err = NoErr
    /\ geom = NoGeom

objVars == <<loaded_info, input_info, box_side, solvent_box_offsets,
             long_mol_box_offsets, long_mol_max_side, n_large, remove_tmp>>

Raise(e) ==
    /\ pc' = "FAILED"
    /\ err' = e

\* line 174: open('box.inp', 'w+')
OpenInp ==
    /\ pc = "run_start"
    /\ fs' = [fs EXCEPT !["box.inp"] = InpFile(<<>>)]
    /\ inp_file' = [open |-> TRUE, pos |-> 0, opens |-> inp_file.opens + 1]
    /\ pc' = "write_first"
    /\ UNCHANGED <<geom, objVars, large_mol_list, round, i, rc, calls, transforms, err>>

\* line 175: write_box_first_inp, then the call of line 176 is entered
WriteBoxFirstInp ==
    /\ pc = "write_first"
    /\ IF large_mol_list = <<>>
       THEN /\ Raise(Exc("IndexError", "pop from empty list"))
            /\ UNCHANGED <<large_mol_list, fs, inp_file, round>>
       ELSE /\ large_mol_list' = Pop0Rest(large_mol_list)
            /\ InpWrite(FirstText(Pop0Item(large_mol_list)))
            /\ round' = "box_first"
            /\ pc' = "call"
            /\ err' = err
    /\ UNCHANGED <<geom, objVars, i, rc, calls, transforms>>

\* lines 210 and 215: self._inp_file.seek(0)
\* (a faulty variant that leaves the handle where the last write ended)
SeekStart_Stay(handle) == handle
SeekStart(handle) == [handle EXCEPT !.pos = 0]

\* line 216: self._inp_file.truncate(), at the handle's offset
\* (a faulty variant that keeps the text)
Truncate_Keep(text, pos) == text
Truncate(text, pos) == SubSeq(text, 1, pos)

\* lines 209-212: open the log, seek(0), run packmol and wait for it
PackCall ==
    /\ pc = "call"
    /\ LET input == StdinOf(fs["box.inp"].text, SeekStart(inp_file).pos)
           out   == DeclaredOut(input)
       IN  \E wrote \in BOOLEAN, code \in ExitCodes :
              /\ wrote => out \in Files
              /\ fs' = [f \in Files |->
                          IF f = LogName(round) THEN LogFile
                          ELSE IF wrote /\ f = out THEN RawOutput(input)
                          ELSE fs[f]]
              /\ rc' = code
              /\ calls' = Append(calls, [round |-> round, out |-> out,
                                         log |-> LogName(round),
                                         stale |-> out \in Files /\ Exists(out),
                                         wrote |-> wrote,
                                         read |-> ShapeOf(input)])
              /\ inp_file' = [inp_file EXCEPT !.pos = Len(fs["box.inp"].text)]
    /\ pc' = "check"
    /\ UNCHANGED <<geom, objVars, large_mol_list, round, i, transforms, err>>

\* line 213: not os.path.exists(f'{box_out_basename}.pdb')
\* (a faulty variant that trusts the exit code instead)
OutputMissing_ExitCode(basename) == rc # 0
OutputMissing(basename) == ~Exists(BoxOutName(basename))

\* line 214: the IOError and the log file its message names
\* (a faulty variant that names box.log, after box.inp, in every round)
PackmolError_BoxLog(basename) ==
    [type |-> "IOError", what |-> "packmol", log |-> "box.log"]
PackmolError(basename) ==
    [type |-> "IOError", what |-> "packmol", log |-> LogName(basename)]

\* lines 213-214
PackCheck ==
    /\ pc = "check"
    /\ IF OutputMissing(round)
       THEN Raise(PackmolError(round))
       ELSE /\ pc' = "fix"
            /\ err' = err
    /\ UNCHANGED <<geom, objVars, large_mol_list, round, i, fs, inp_file, rc, calls, transforms>>

\* move_and_add_box(initial, final, move), lines 239-250
MoveAndAddBox(files, initial, final, move) ==
    [files EXCEPT ![final] =
        File("fixed", files[initial].n, files[initial].solv, move, TRUE, <<>>)]

\* lines 215-217, and the return to run_packing
PackFix ==
    /\ pc = "fix"
    /\ inp_file' = SeekStart(inp_file)
    /\ fs' = MoveAndAddBox([fs EXCEPT !["box.inp"] =
                               InpFile(Truncate(fs["box.inp"].text,
                                                SeekStart(inp_file).pos))],
                           BoxOutName(round), OutName(round), MoveArg(round))
    /\ transforms' = Append(transforms, [src |-> BoxOutName(round),
                                         dst |-> OutName(round),
                                         move |-> MoveArg(round)])
    /\ pc' = CASE round = "box_first"    -> "after_first"
               [] round = "box_one_more" -> "loop"
               [] round = "box"          -> "cleanup"
    /\ UNCHANGED <<geom, objVars, large_mol_list, round, i, rc, calls, err>>

\* line 179: if self._large_mol_list
IfLargeLeft ==
    /\ pc = "after_first"
    /\ pc' = IF large_mol_list # <<>> THEN "loop" ELSE "rename"
    /\ UNCHANGED <<geom, objVars, large_mol_list, round, i, fs, inp_file, rc, calls,
                   transforms, err>>

\* line 180: the iterations of range(self.n_large - 1)
\* (a faulty variant that stops one iteration early)
LoopBound_Short == n_large - 2
LoopBound == n_large - 1

\* line 180: for i in range(self.n_large - 1)
LoopNext ==
    /\ pc = "loop"
    /\ IF i < LoopBound
       THEN /\ i' = i + 1
            /\ pc' = "remove_final"
       ELSE /\ i' = i
            /\ pc' = "rename"
    /\ UNCHANGED <<geom, objVars, large_mol_list, round, fs, inp_file, rc, calls,
                   transforms, err>>

\* (a faulty variant that leaves the previous round's final.pdb in place)
RemoveFinal_Keep ==
    /\ pc = "remove_final"
    /\ pc' = "write_one_more"
    /\ UNCHANGED <<geom, objVars, large_mol_list, round, i, fs, inp_file, rc, calls,
                   transforms, err>>

\* line 182: os.remove('final.pdb')
RemoveFinal ==
    /\ pc = "remove_final"
    /\ IF Exists("final.pdb")
       THEN /\ fs' = [fs EXCEPT !["final.pdb"] = NoFile]
            /\ pc' = "write_one_more"
            /\ err' = err
       ELSE /\ Raise(Exc("FileNotFoundError", "final.pdb"))
            /\ fs' = fs
    /\ UNCHANGED <<geom, objVars, large_mol_list, round, i, inp_file, rc, calls, transforms>>

\* line 183: write_box_one_more_large_inp, then the call of line 184 is entered
WriteBoxOneMoreLargeInp ==
    /\ pc = "write_one_more"
    /\ IF large_mol_list = <<>>
       THEN /\ Raise(Exc("IndexError", "pop from empty list"))
            /\ UNCHANGED <<large_mol_list, fs, inp_file, round>>
       ELSE /\ large_mol_list' = Pop0Rest(large_mol_list)
            /\ \E sub \in random_long_mol_subbox :
                  IF sub.ok
                  THEN /\ InpWrite(OneMoreText(Pop0Item(large_mol_list), sub.box))
                       /\ round' = "box_one_more"
                       /\ pc' = "call"
                       /\ err' = err
                  ELSE /\ Raise(Exc("ValueError", "probabilities contain NaN"))
                       /\ UNCHANGED <<fs, inp_file, round>>
    /\ UNCHANGED <<geom, objVars, i, rc, calls, transforms>>

\* line 187: os.rename('initial.pdb', 'final.pdb'), replacing final.pdb
RenameInitial ==
    /\ pc = "rename"
    /\ IF Exists("initial.pdb")
       THEN /\ fs' = [fs EXCEPT !["final.pdb"] = fs["initial.pdb"],
                                !["initial.pdb"] = NoFile]
            /\ pc' = "write_solvent"
            /\ err' = err
       ELSE /\ Raise(Exc("FileNotFoundError", "initial.pdb"))
            /\ fs' = fs
    /\ UNCHANGED <<geom, objVars, large_mol_list, round, i, inp_file, rc, calls, transforms>>

\* line 190: write_box_solvent_inp, then the call of lines 191-192 is entered
WriteBoxSolventInp ==
    /\ pc = "write_solvent"
    /\ InpWrite(SolventText)
    /\ round' = "box"
    /\ pc' = "call"
    /\ UNCHANGED <<geom, objVars, large_mol_list, i, rc, calls, transforms, err>>

\* lines 195-199: what the cleanup unlinks (nothing in the run writes a
\* '#*#' file)
\* (a faulty variant that forgets final.pdb)
TmpFiles_LogsOnly == Logs
TmpFiles == Logs \cup {"final.pdb"}

\* lines 193-199: the '*.log' files go first, then final.pdb
Cleanup ==
    /\ pc = "cleanup"
    /\ IF remove_tmp
       THEN IF Exists("final.pdb")
            THEN /\ fs' = [f \in Files |-> IF f \in TmpFiles THEN NoFile ELSE fs[f]]
                 /\ pc' = "close"
                 /\ err' = err
            ELSE /\ fs' = [f \in Files |-> IF f \in Logs THEN NoFile ELSE fs[f]]
                 /\ Raise(Exc("FileNotFoundError", "final.pdb"))
       ELSE /\ fs' = fs
            /\ pc' = "close"
            /\ err' = err
    /\ UNCHANGED <<geom, objVars, large_mol_list, round, i, inp_file, rc, calls, transforms>>

\* lines 200-201: close the handle and remove box.inp
CloseInp ==
    /\ pc = "close"
    /\ inp_file' = [inp_file EXCEPT !.open = FALSE]
    /\ fs' = [fs EXCEPT !["box.inp"] = NoFile]
    /\ pc' = "DONE"
    /\ UNCHANGED <<geom, objVars, large_mol_list, round, i, rc, calls, transforms, err>>

Next ==
    \/ OpenInp
    \/ WriteBoxFirstInp
    \/ PackCall
    \/ PackCheck
    \/ PackFix
    \/ IfLargeLeft
    \/ LoopNext
    \/ RemoveFinal
    \/ WriteBoxOneMoreLargeInp
    \/ RenameInitial
    \/ WriteBoxSolventInp
    \/ Cleanup
    \/ CloseInp

Spec == Init /\ [][Next]_vars

\* run_packing started in an out_dir that holds no structure file
InitClean ==
    /\ Init
    /\ \A f \in Pdbs : ~Exists(f)

SpecClean == InitClean /\ [][Next]_vars

----------------------------------------------------------------------------
(* One round with its coordinates: the window run_packing requests, the    *)
(* atoms packmol places inside it, and move_and_add_box (lines 239-250) on *)
(* packmol's output.  A pdb file holds coordinates in steps of 1/1000 A;   *)
(* in memory they are finer, in steps of 1/Fine of that.  The call and     *)
(* transform histories are not kept here.                                  *)

GeomMaxSides == {1900, 4500}      \* molecule extents tried (shorter / longer than box - 2 A)
GeomRounds   == {"box_first", "box_one_more", "box"}

InitGeom ==
    /\ \E pbc \in Triples, box \in RunBoxes :
          /\ loaded_info = [large_molecules |-> TRUE, solvent |-> MaxSolvent,
                            box |-> ListOf(box), pbc |-> ListOf(pbc)]
          /\ input_info = UnifyInputInfo(loaded_info).info
          /\ box_side = box
          /\ solvent_box_offsets = SolventOffsets(pbc)
          /\ long_mol_box_offsets = LongMolOffsets(pbc)
    /\ n_large = MaxLarge
    /\ long_mol_max_side \in GeomMaxSides
    /\ remove_tmp = FALSE
    /\ round \in GeomRounds
    \* the first round, the second round, or the solvent round of a run
    /\ large_mol_list = (CASE round = "box_first"    -> [k \in 1..n_large |-> k]
                          [] round = "box_one_more" -> [k \in 1..(n_large - 1) |-> k + 1]
                          [] round = "box"          -> <<>>)
    /\ i = (CASE round = "box_first"    -> 0
             [] round = "box_one_more" -> 1
             [] round = "box"          -> n_large - 1)
    /\ fs = [f \in Files |->
               CASE f = "box.inp" -> InpFile(<<>>)
                 [] f = "initial.pdb" /\ round = "box_one_more" ->
                       File("fixed", 1, FALSE, TRUE, TRUE, <<>>)
                 [] f = "final.pdb" /\ round = "box" ->
                       File("fixed", n_large, FALSE, TRUE, TRUE, <<>>)
                 [] OTHER -> NoFile]
    /\ inp_file = [open |-> TRUE, pos |-> 0, opens |-> 1]
    /\ pc = "geom_request"
    /\ rc = 0
    /\ calls = <<>>
    /\ transforms = <<>>
    /\ err = NoErr
    /\ geom = NoGeom

geomFrame == <<objVars, large_mol_list, round, i, fs, inp_file, rc, calls, transforms, err>>

\* the "inside box" window of the request the round writes (lines 289,
\* 314, 338); a one-more-large round whose subbox raises writes none
GeomWindows ==
    CASE round = "box_first"    -> {FirstText(Pop0Item(large_mol_list))[2].box}
      [] round = "box_one_more" ->
           {OneMoreText(Pop0Item(large_mol_list), sub.box)[3].box :
              sub \in {r \in random_long_mol_subbox : r.ok}}
      [] round = "box"          -> {SolventText[3].box}

\* lines 175, 183, 190: the request of the round is written
GeomRequest ==
    /\ pc = "geom_request"
    /\ \E win \in GeomWindows : geom' = [geom EXCEPT !.window = win]
    /\ pc' = "geom_engine"
    /\ UNCHANGED geomFrame

\* the positions packmol can give an atom it places inside box win: the
\* corners of the window
AtomsIn(win) ==
    {<<x, y, z>> : x \in {win[1], win[4]}, y \in {win[2], win[5]}, z \in {win[3], win[6]}}

\* lines 211-212: packmol honours the window and writes its output
GeomEngine ==
    /\ pc = "geom_engine"
    /\ \E k \in 1..MaxPlaced : \E raw \in [1..k -> AtomsIn(geom.window)] :
          geom' = [geom EXCEPT !.raw = raw]
    /\ pc' = "geom_load"
    /\ UNCHANGED geomFrame

\* Universe(initial) reads a coordinate of the pdb file, and
\* universe.atoms.write(final) prints one with 3 decimals ('%8.3f')
ReadPdb(x)  == x * Fine
WritePdb(p) == RoundTo(p, Fine) \div Fine

\* line 240: [*self.box_side, 90, 90, 90]
Dimensions == <<box_side[1], box_side[2], box_side[3], 90, 90, 90>>

\* lines 239-240: load the structure and set the unit cell
GeomLoad ==
    /\ pc = "geom_load"
    /\ geom' = [geom EXCEPT
                  !.positions = [j \in DOMAIN geom.raw |->
                                   [a \in 1..3 |-> ReadPdb(geom.raw[j][a])]],
                  !.dimensions = Dimensions]
    /\ pc' = IF MoveArg(round) THEN "geom_move" ELSE "geom_write"
    /\ UNCHANGED geomFrame

\* line 243: self.box_side * self.input_info['pbc'], per axis
MaximumDispl(a) == box_side[a] * input_info.pbc.v[a]

\* line 244: maximum_displ * np.random.random(3); a random number is in
\* [0, 1), so a component is 0, the smallest step, half of the maximum or
\* one step less than the maximum
Displacements(a) ==
    LET maxd == MaximumDispl(a) * Fine
    IN  {d \in {0, 1, maxd \div 2, maxd - 1} : d = 0 \/ (0 < d /\ d < maxd)}

\* line 245: pack_into_box() wraps every coordinate of every atom into
\* [0, side) of the unit cell, on all three axes
\* (a faulty variant that wraps nothing)
PackIntoBox_None(positions, dimensions) == positions
PackIntoBox(positions, dimensions) ==
    [j \in DOMAIN positions |->
       [a \in 1..3 |-> positions[j][a] % (dimensions[a] * Fine)]]

\* lines 242-245, with move true
GeomMove ==
    /\ pc = "geom_move"
    /\ \E d1 \in Displacements(1), d2 \in Displacements(2), d3 \in Displacements(3) :
          LET d     == <<d1, d2, d3>>
              moved == [j \in DOMAIN geom.positions |->
                          [a \in 1..3 |-> geom.positions[j][a] + d[a]]]
          IN  geom' = [geom EXCEPT !.displ = d,
                                   !.positions = PackIntoBox(moved, geom.dimensions)]
    /\ pc' = "geom_write"
    /\ UNCHANGED geomFrame

\* line 250: universe.atoms.write(final)
GeomWrite ==
    /\ pc = "geom_write"
    /\ geom' = [geom EXCEPT
                  !.written = [j \in DOMAIN geom.positions |->
                                 [a \in 1..3 |-> WritePdb(geom.positions[j][a])]],
                  !.cell = geom.dimensions]
    /\ pc' = "geom_done"
    /\ UNCHANGED geomFrame

NextGeom ==
    \/ GeomRequest
    \/ GeomEngine
    \/ GeomLoad
    \/ GeomMove
    \/ GeomWrite

SpecGeom == InitGeom /\ [][NextGeom]_vars

----------------------------------------------------------------------------
(* Properties.                                                             *)

Queue0      == [k \in 1..n_large |-> k]       \* the queue as drawn
LastCall    == calls[Len(calls)]
\* large-molecule rounds completed: their transform wrote initial.pdb
LargeDone   == Cardinality({k \in DOMAIN transforms : transforms[k].dst = "initial.pdb"})
OneMoreCalls == Cardinality({k \in DOMAIN calls : calls[k].round = "box_one_more"})
BetweenRounds ==
    pc \in {"after_first", "loop", "remove_final", "write_one_more", "rename",
            "write_solvent"}
InRound     == pc \in {"call", "check", "fix"}
WallAxes    == {a \in 1..3 : input_info.pbc.v[a] = 0}
\* the placement windows of the one-more-large request box.inp holds
RequestedSubboxes ==
    IF round = "box_one_more"
    THEN {fs["box.inp"].text[k].box :
            k \in {j \in DOMAIN fs["box.inp"].text :
                     /\ fs["box.inp"].text[j].blk = "inside"
                     /\ fs["box.inp"].text[j].file = "large"}}
    ELSE {}
Present     == {f \in Files : Exists(f)}

\* C1: every large-molecule round removes exactly one entry from the front
\* of the queue: with n rounds completed the queue is the drawn queue less
\* its first n entries (one more during a round), the one-more loop has run
\* n_large - 1 times when the solvent step starts, and the queue is then
\* empty.
C1_QueueConsumedOncePerRound ==
    /\ pc \in {"run_start", "write_first"} => large_mol_list = Queue0
    /\ BetweenRounds => large_mol_list = SubSeq(Queue0, LargeDone + 1, n_large)
    /\ (InRound /\ round # "box") =>
          large_mol_list = SubSeq(Queue0, LargeDone + 2, n_large)
    /\ (pc = "write_solvent" \/ round = "box") =>
          /\ large_mol_list = <<>>
          /\ LargeDone = n_large
          /\ i = n_large - 1
          /\ OneMoreCalls = n_large - 1

C1_Witness ==
    /\ pc = "write_solvent"
    /\ n_large = 3
    /\ LargeDone = 3
    /\ large_mol_list = <<>>

\* C2: _pack_and_fix raises the packmol IOError exactly when the output
\* file the request declares is absent once packmol has returned, whatever
\* the exit code.
C2_EngineFailureIffOutputAbsent ==
    /\ pc = "fix" => (LastCall.out \in Files /\ Exists(LastCall.out))
    /\ (pc = "FAILED" /\ err.what = "packmol") =>
          (LastCall.out \in Files /\ ~Exists(LastCall.out))

C2_Witness ==
    /\ pc = "FAILED"
    /\ err.what = "packmol"
    /\ round = "box"
    /\ rc = 0
    /\ ~Exists("boxed.pdb")

\* C3: the handle on box.inp is closed in every terminal state of the run,
\* DONE as well as FAILED after a packmol failure.
C3_HandleClosedOnEveryExit ==
    (pc = "DONE" \/ (pc = "FAILED" /\ err.what = "packmol")) => ~inp_file.open

\* C4: on every wall axis the sub-interval random_long_mol_subbox returns
\* lies inside the large-molecule window [low offset, box_side + high
\* offset], and the sampling never fails, whatever the occupancy is.
C4_SubboxInsideWindowNeverFails ==
    /\ ~(pc = "FAILED" /\ err.type = "ValueError")
    /\ \A b \in RequestedSubboxes : \A a \in WallAxes :
          /\ long_mol_box_offsets[a] <= b[a]
          /\ b[a + 3] <= box_side[a] + long_mol_box_offsets[a + 3]

\* C5: a packmol failure ends the run at once: the failing check changes no
\* file and starts no call or transform, its error names the log the failed
\* call wrote, and nothing happens after it.
C5_FailureIsImmediate ==
    /\ [][(pc = "check" /\ pc' = "FAILED") =>
            /\ fs' = fs
            /\ calls' = calls
            /\ transforms' = transforms
            /\ err'.what = "packmol"
            /\ err'.log = LastCall.log
            /\ Exists(err'.log)]_vars
    /\ [][pc # "FAILED"]_vars

C5_Witness ==
    /\ pc = "FAILED"
    /\ err.what = "packmol"
    /\ err.log = "box_one_more.log"
    /\ Len(calls) = 2
    /\ Len(transforms) = 1

\* C6: on every wall axis, the window requested for a large molecule after
\* the first has an upper bound of at most box_side - 2 A.
C6_SubboxUpperBoundHonoursWall ==
    \A b \in RequestedSubboxes : \A a \in WallAxes : b[a + 3] <= box_side[a] - 2000

C6_Witness ==
    /\ pc = "call"
    /\ round = "box_one_more"
    /\ input_info.pbc.v = <<1, 1, 0>>
    /\ long_mol_max_side = 1900
    /\ \E b \in RequestedSubboxes : b[3] = 2100 /\ b[6] = 4000

\* C7: after a successful run with remove_tmp only boxed.pdb is left in
\* out_dir; without it final.pdb and the logs of the rounds are kept.
C7_OnlyBoxedRemainsAfterCleanup ==
    pc = "DONE" =>
       /\ remove_tmp => Present = {"boxed.pdb"}
       /\ ~remove_tmp =>
             /\ {"boxed.pdb", "final.pdb", "box_first.log", "box.log"} \subseteq Present
             /\ n_large >= 2 => "box_one_more.log" \in Present

C7_Witness ==
    /\ pc = "DONE"
    /\ remove_tmp
    /\ n_large = 2
    /\ Present = {"boxed.pdb"}
    /\ fs["boxed.pdb"].kind = "fixed"

\* C8: for a pbc triple, the solvent offsets of an axis are (+1, -1) A if
\* it is periodic and (+2, -2) A if it is a wall, the large-molecule
\* offsets are (0, 0) and (+2, -2), and the rendered windows are the low
\* offset and box side + high offset.
C8_OffsetsPerAxis ==
    (pc = "constructed" /\ Len(input_info.pbc.v) = 3) =>
       \A a \in 1..3 :
          LET periodic == input_info.pbc.v[a] = 1
              s == IF periodic THEN 1000 ELSE 2000
              l == IF periodic THEN 0 ELSE 2000
          IN  /\ solvent_box_offsets[a] = s
              /\ solvent_box_offsets[a + 3] = 0 - s
              /\ long_mol_box_offsets[a] = l
              /\ long_mol_box_offsets[a + 3] = 0 - l
              /\ solvent_box_str[a] = s
              /\ solvent_box_str[a + 3] = box_side[a] - s
              /\ long_mol_box_str[a] = l
              /\ long_mol_box_str[a + 3] = box_side[a] - l

C8_Witness ==
    /\ pc = "constructed"
    /\ input_info.pbc.v = <<1, 0, 1>>
    /\ box_side = <<6000, 8000, 6000>>
    /\ solvent_box_str = <<1000, 2000, 1000, 5000, 6000, 5000>>

BoxErrors == {"no_box", "box_len"}

\* C9: validation turns a box list of length 1 into three equal sides,
\* leaves a list of length 3 as it is, and rejects every other length.
C9_BoxLength ==
    (pc # "loaded" /\ loaded_info.large_molecules /\ loaded_info.box.t = "list") =>
       LET b == loaded_info.box.v
       IN  /\ Len(b) = 1 => /\ input_info.box.v = <<b[1], b[1], b[1]>>
                            /\ err.what \notin BoxErrors
           /\ Len(b) = 3 => /\ input_info.box.v = b
                            /\ err.what \notin BoxErrors
           /\ Len(b) \notin {1, 3} => /\ pc = "config_error"
                                      /\ err.what \in BoxErrors

C9_Witness ==
    /\ pc = "unified"
    /\ loaded_info.box.v = <<8000>>
    /\ input_info.box.v = <<8000, 8000, 8000>>

\* C10: a pbc value is accepted only if it is a list of exactly 3 flags,
\* each 0 or 1.
C10_PbcIsThreeFlags ==
    (pc = "constructed" /\ loaded_info.pbc.t # "absent") =>
       /\ loaded_info.pbc.t = "list"
       /\ Len(loaded_info.pbc.v) = 3
       /\ AllFlags(loaded_info.pbc.v)

\* C13 (as claimed): the transform after the very first placement runs with
\* move=False, as the transform of the finished solvated box does: it
\* neither displaces nor wraps.
C13_FirstTransformDoesNotMove ==
    \A k \in DOMAIN transforms :
       (k = 1 \/ transforms[k].dst = "boxed.pdb") => ~transforms[k].move

\* C13 (amended): the call of line 176 leaves move at its default, True:
\* the transform after the first placement displaces and wraps as the one
\* of every later large-molecule round does, and the initial.pdb it writes
\* is a moved structure with the unit cell set; only the transform of the
\* solvated box runs with move=False.
C13_FirstTransformMoves ==
    /\ \A k \in DOMAIN transforms :
          transforms[k].move <=> transforms[k].dst = "initial.pdb"
    /\ Len(transforms) >= 1 =>
          /\ transforms[1].src = "final.pdb"
          /\ transforms[1].dst = "initial.pdb"
          /\ transforms[1].move
    /\ (pc = "after_first") =>
          /\ fs["initial.pdb"].kind = "fixed"
          /\ fs["initial.pdb"].moved
          /\ fs["initial.pdb"].cell

C13_Witness ==
    /\ pc = "after_first"
    /\ Len(transforms) = 1
    /\ transforms[1].move
    /\ fs["initial.pdb"].moved
    /\ calls[1].wrote

PeriodicAxes == {a \in 1..3 : input_info.pbc.v[a] # 0}

\* C18: on every periodic axis the window requested for a large molecule
\* after the first is the whole large-molecule window, from 0 to the box
\* side: random_long_mol_subbox changes wall axes only.
C18_SubboxKeepsPeriodicAxes ==
    \A b \in RequestedSubboxes : \A a \in PeriodicAxes :
       /\ b[a] = 0
       /\ b[a + 3] = box_side[a]
       /\ b[a] = long_mol_box_str[a]
       /\ b[a + 3] = long_mol_box_str[a + 3]

C18_Witness ==
    /\ pc = "call"
    /\ round = "box_one_more"
    /\ input_info.pbc.v = <<1, 0, 1>>
    /\ \E b \in RequestedSubboxes :
          /\ b[1] = 0 /\ b[4] = 6000
          /\ b[3] = 0 /\ b[6] = 6000
          /\ b[2] # long_mol_box_str[2]
          /\ b[5] # long_mol_box_str[5]

SolventCalls == {k \in DOMAIN calls : calls[k].round = "box"}

\* C15: packmol is called for the solvent at most once, as call n_large + 1
\* after the first-large call and n_large - 1 one-more-large calls, with
\* the transforms of all n_large large rounds written and the queue empty;
\* a run that is DONE has made exactly these n_large + 1 calls, and its
\* solvent round passed the output check and wrote boxed.pdb.
C15_SolventOnceAfterAllLarge ==
    /\ Cardinality(SolventCalls) <= 1
    /\ Len(calls) <= n_large + 1
    /\ \A k \in DOMAIN calls :
          calls[k].round = (IF k = 1 THEN "box_first"
                            ELSE IF k <= n_large THEN "box_one_more"
                            ELSE "box")
    /\ \A k \in DOMAIN transforms : k <= Len(calls) /\ transforms[k].src = calls[k].out
    /\ SolventCalls # {} =>
          /\ SolventCalls = {n_large + 1}
          /\ LargeDone = n_large
          /\ Len(transforms) >= n_large
          /\ large_mol_list = <<>>
    /\ pc = "DONE" =>
          /\ Len(calls) = n_large + 1
          /\ Len(transforms) = n_large + 1
          /\ transforms[n_large + 1].dst = "boxed.pdb"
          /\ Exists("boxed.pdb")

C15_Witness ==
    /\ pc = "DONE"
    /\ n_large = 3
    /\ Len(calls) = 4
    /\ calls[2].round = "box_one_more"
    /\ calls[4].round = "box"
    /\ calls[4].wrote

\* C19: in a run started with none of final.pdb, initial.pdb and boxed.pdb
\* in out_dir, the output file a round declares does not exist when packmol
\* is called for it, so a round passes the check of line 213 only on a file
\* that very call wrote.
C19_DeclaredOutputAbsentBeforeCall ==
    /\ \A k \in DOMAIN calls : ~calls[k].stale
    /\ pc = "call" => ~Exists(BoxOutName(round))
    /\ pc = "fix" => LastCall.wrote

C19_Witness ==
    /\ pc = "fix"
    /\ n_large = 2
    /\ Len(calls) = 3
    /\ calls[1].wrote /\ calls[2].wrote /\ calls[3].wrote
    /\ ~calls[2].stale
    /\ ~calls[3].stale

\* the structures the request in box.inp fixes in place
FixedInRequest ==
    {fs["box.inp"].text[k].file :
       k \in {j \in DOMAIN fs["box.inp"].text : fs["box.inp"].text[j].blk = "fixed"}}

\* C16: the structure a request fixes in place is the assembly so far, as
\* the previous round's transform wrote it: the one-more-large request of
\* round k fixes an initial.pdb that holds the k - 1 molecules of rounds
\* 1..k-1, and the solvent request fixes a final.pdb that holds all n_large
\* molecules; neither is a raw packmol output nor an older file.
C16_FixedIsCompleteAssembly ==
    pc = "call" =>
       /\ round = "box_first" => FixedInRequest = {}
       /\ round = "box_one_more" =>
             /\ FixedInRequest = {"initial.pdb"}
             /\ fs["initial.pdb"].kind = "fixed"
             /\ fs["initial.pdb"].n = Len(calls)
             /\ fs["initial.pdb"].moved
             /\ fs["initial.pdb"].cell
       /\ round = "box" =>
             /\ FixedInRequest = {"final.pdb"}
             /\ fs["final.pdb"].kind = "fixed"
             /\ fs["final.pdb"].n = n_large
             /\ ~fs["final.pdb"].solv
             /\ fs["final.pdb"].moved
             /\ fs["final.pdb"].cell

\* the request run_packing writes for the round in progress; the window of
\* a one-more-large request is the one the request holds
CurrentRequest ==
    LET text == fs["box.inp"].text
        mol  == n_large - Len(large_mol_list)
    IN  CASE round = "box_first"    -> FirstText(mol)
          [] round = "box_one_more" ->
               OneMoreText(mol, IF Len(text) >= 3 THEN text[3].box ELSE <<>>)
          [] round = "box"          -> SolventText
          [] OTHER                  -> <<>>

\* the blocks of the request of the k-th call of a run
RequestShape(k) ==
    IF k = 1 THEN ShapeOf(FirstText(k))
    ELSE IF k <= n_large THEN ShapeOf(OneMoreText(k, <<>>))
    ELSE ShapeOf(SolventText)

\* C17: box.inp is opened once in a run; when packmol is called the file
\* holds the request of the round in progress and nothing else, packmol
\* has read every call's request whole, from offset 0, and between rounds
\* the file is empty with the handle at offset 0.
C17_ScratchHoldsOneRequest ==
    /\ inp_file.opens = (IF pc = "run_start" THEN 0 ELSE 1)
    /\ pc = "call" =>
          /\ fs["box.inp"].text = CurrentRequest
          /\ inp_file.pos = Len(CurrentRequest)
    /\ \A k \in DOMAIN calls : calls[k].read = RequestShape(k)
    /\ (pc \in {"check", "fix"}) => fs["box.inp"].text = CurrentRequest
    /\ BetweenRounds =>
          /\ fs["box.inp"].text = <<>>
          /\ inp_file.pos = 0

C17_Witness ==
    /\ pc = "check"
    /\ n_large = 2
    /\ round = "box"
    /\ input_info.solvent = 0
    /\ Len(calls) = 3
    /\ Len(calls[2].read) = 3
    /\ Len(calls[3].read) = 2
    /\ fs["box.inp"].text = SolventText

\* move_and_add_box has run past its "if move" block
Transformed == pc \in {"geom_write", "geom_done"}

C12_WallAxesUntouched ==
    pc = "geom_done" =>
       \A a \in WallAxes :
          /\ geom.displ # <<>> => geom.displ[a] = 0
          /\ \A j \in DOMAIN geom.raw : geom.written[j][a] = geom.raw[j][a]

\* C14: the transform of the solvent round runs with move false: no
\* displacement is drawn and nothing is wrapped, every coordinate written
\* to boxed.pdb is the one packmol wrote, and the unit cell written is the
\* box sides with three angles of 90 degrees.
C14_SolventTransformKeepsPositions ==
    (pc = "geom_done" /\ round = "box") =>
       /\ geom.displ = <<>>
       /\ geom.positions =
             [j \in DOMAIN geom.raw |-> [a \in 1..3 |-> ReadPdb(geom.raw[j][a])]]
       /\ geom.written = geom.raw
       /\ geom.cell = <<box_side[1], box_side[2], box_side[3], 90, 90, 90>>

C14_Witness ==
    /\ pc = "geom_done"
    /\ round = "box"
    /\ input_info.pbc.v = <<1, 0, 1>>
    /\ geom.window = solvent_box_str
    /\ Len(geom.raw) = 2
    /\ geom.raw[1] = <<1000, 2000, 1000>>
    /\ geom.raw[2] = <<5000, 4000, 5000>>
    /\ geom.written = geom.raw
    /\ geom.cell = <<6000, 6000, 6000, 90, 90, 90>>

====
